---- MODULE Spec2Model ----
(***************************************************************************)
(* Model of the primus-fhe algebra primitives:                             *)
(*   - src/algebra/src/random/prg/aes.rs : AES-128 (key schedule, single   *)
(*     block, fixed-size batch and slice encryption, x86 and aarch64       *)
(*     backends);                                                          *)
(*   - src/algebra/src/primitive.rs : Widening (carry_add, borrow_sub,     *)
(*     widen_mul, carry_mul), div_ceil and the rounded_div family.         *)
(*                                                                         *)
(* A Block is a sequence of 16 bytes, byte j of the 128-bit register at    *)
(* index j+1.  The round-key array self.0[0..10] is a sequence of 11       *)
(* Blocks, self.0[r] at index r+1.                                         *)
(***************************************************************************)
EXTENDS Integers, Sequences, FiniteSets, TLC

VARIABLES
    arch,      \* the cfg(target_arch) the build selected
    aes,       \* Aes.0 : the 11 round keys
    pc,        \* which operation runs and where it stands
    pt,        \* encrypt_block: the argument blk
    ct,        \* encrypt_block: the returned Block
    blks,      \* encrypt_many_blocks / encrypt_block_slice: the blocks
    orig,      \* the content of blks when the call was made
    i,         \* encrypt_block_slice: the loop variable of `for i in 0..len / 8`
    encs,      \* encrypt_block_slice: how often each index was written back
    bits,      \* Widening / rounded_div: Self::BITS of the instantiated type
    xs,        \* Widening: the limbs of self, least significant first
    ys,        \* Widening: the limbs of rhs, least significant first
    cy,        \* carry_add / borrow_sub: the carry or borrow given to the next call
    flag,      \* carry_add / borrow_sub: the bool the last call returned
    cw,        \* carry_mul: the argument carry
    zs,        \* Widening: the first components returned so far
    hi,        \* widen_mul / carry_mul: the second component returned
    ovf,       \* widen_mul / carry_mul: the WideT arithmetic overflowed
    signed,    \* rounded_div: TRUE for i8.., FALSE for u8..
    overflow_checks, \* the build's overflow-checks setting (debug / release)
    dividend,  \* rounded_div / div_ceil: the first argument
    divisor,   \* rounded_div / div_ceil: the second argument
    res        \* rounded_div / div_ceil: how the call ended

aesVars == <<arch, aes, pt, ct, blks, orig, i, encs>>
wideVars == <<bits, xs, ys, cy, flag, cw, zs, hi, ovf>>
divVars == <<signed, overflow_checks, dividend, divisor, res>>
vars == <<pc, aesVars, wideVars, divVars>>

(***************************************************************************)
(* Bytes and 128-bit registers.                                            *)
(***************************************************************************)
RECURSIVE BitXor(_, _, _)
BitXor(a, b, n) ==
    IF n = 0 THEN 0
    ELSE ((a + b) % 2) + 2 * BitXor(a \div 2, b \div 2, n - 1)

\* XOR of two nibbles, tabulated.
Xor4 == [a \in 0..15 |-> [b \in 0..15 |-> BitXor(a, b, 4)]]

\* XOR of two bytes.
xor8(a, b) == 16 * Xor4[a \div 16][b \div 16] + Xor4[a % 16][b % 16]

\* A 16-byte register / a 4-byte lane / a sequence of n registers, with all
\* its elements computed (a function written [j \in S |-> e] is otherwise
\* recomputed at every use).
Reg(f) == SubSeq(f, 1, 16)
Word(f) == SubSeq(f, 1, 4)
Regs(f, n) == SubSeq(f, 1, n)

\* Block::ZERO / Block::default() / _mm_setzero_si128()
ZERO == Reg([j \in 1..16 |-> 0])

\* _mm_xor_si128 / veorq_u8
mm_xor_si128(a, b) == Reg([j \in 1..16 |-> xor8(a[j], b[j])])

\* The AES S-box (FIPS-197 figure 7), entry x at index x+1.
AES_SBOX == <<
      99, 124, 119, 123, 242, 107, 111, 197,  48,   1, 103,  43, 254, 215, 171, 118,
     202, 130, 201, 125, 250,  89,  71, 240, 173, 212, 162, 175, 156, 164, 114, 192,
     183, 253, 147,  38,  54,  63, 247, 204,  52, 165, 229, 241, 113, 216,  49,  21,
       4, 199,  35, 195,  24, 150,   5, 154,   7,  18, 128, 226, 235,  39, 178, 117,
       9, 131,  44,  26,  27, 110,  90, 160,  82,  59, 214, 179,  41, 227,  47, 132,
      83, 209,   0, 237,  32, 252, 177,  91, 106, 203, 190,  57,  74,  76,  88, 207,
     208, 239, 170, 251,  67,  77,  51, 133,  69, 249,   2, 127,  80,  60, 159, 168,
      81, 163,  64, 143, 146, 157,  56, 245, 188, 182, 218,  33,  16, 255, 243, 210,
     205,  12,  19, 236,  95, 151,  68,  23, 196, 167, 126,  61, 100,  93,  25, 115,
      96, 129,  79, 220,  34,  42, 144, 136,  70, 238, 184,  20, 222,  94,  11, 219,
     224,  50,  58,  10,  73,   6,  36,  92, 194, 211, 172,  98, 145, 149, 228, 121,
     231, 200,  55, 109, 141, 213,  78, 169, 108,  86, 244, 234, 101, 122, 174,   8,
     186, 120,  37,  46,  28, 166, 180, 198, 232, 221, 116,  31,  75, 189, 139, 138,
     112,  62, 181, 102,  72,   3, 246,  14,  97,  53,  87, 185, 134, 193,  29, 158,
     225, 248, 152,  17, 105, 217, 142, 148, 155,  30, 135, 233, 206,  85,  40, 223,
     140, 161, 137,  13, 191, 230,  66, 104,  65, 153,  45,  15, 176,  84, 187,  22>>

SubByte(x) == AES_SBOX[x + 1]

\* SubBytes on a whole register.
SubBytes(s) == Reg([j \in 1..16 |-> SubByte(s[j])])

\* ShiftRows: byte j (0-based) is row j % 4 of column j \div 4; row r is
\* rotated left by r columns.
ShiftRows(s) ==
    Reg([j \in 1..16 |->
        LET r == (j - 1) % 4
            c == (j - 1) \div 4
        IN  s[4 * ((c + r) % 4) + r + 1]])

\* Multiplication by x in GF(2^8) modulo x^8 + x^4 + x^3 + x + 1.
xtime(b) == IF b >= 128 THEN xor8((2 * b) % 256, 27) ELSE 2 * b

\* MixColumns: each column is multiplied by the matrix 2 3 1 1 / 1 2 3 1 /
\* 1 1 2 3 / 3 1 1 2.
MixColumns(s) ==
    Reg([j \in 1..16 |->
        LET r  == (j - 1) % 4
            c  == (j - 1) \div 4
            b0 == s[4 * c + r + 1]
            b1 == s[4 * c + ((r + 1) % 4) + 1]
            b2 == s[4 * c + ((r + 2) % 4) + 1]
            b3 == s[4 * c + ((r + 3) % 4) + 1]
        IN  xor8(xor8(xtime(b0), xor8(xtime(b1), b1)), xor8(b2, b3))])

(***************************************************************************)
(* The x86 AES-NI instructions the code calls.                             *)
(***************************************************************************)
\* _mm_aesenc_si128(a, RoundKey)
mm_aesenc_si128(a, k) == mm_xor_si128(MixColumns(SubBytes(ShiftRows(a))), k)

\* _mm_aesenclast_si128(a, RoundKey)
mm_aesenclast_si128(a, k) == mm_xor_si128(SubBytes(ShiftRows(a)), k)

\* 32-bit lane n (0..3) of a register, as its 4 bytes.
Lane(a, n) == Word([j \in 1..4 |-> a[4 * n + j]])

\* The register made of four lanes.
FromLanes(l0, l1, l2, l3) ==
    Reg([j \in 1..16 |->
        LET n == (j - 1) \div 4
            k == ((j - 1) % 4) + 1
        IN  IF n = 0 THEN l0[k] ELSE IF n = 1 THEN l1[k]
            ELSE IF n = 2 THEN l2[k] ELSE l3[k]])

\* bits [2n+1 : 2n] of an 8-bit immediate
Sel(imm, n) == (imm \div (4 ^ n)) % 4

\* _mm_shuffle_ps(a, b, imm8) (through _mm_castsi128_ps / _mm_castps_si128)
mm_shuffle_ps(a, b, imm) ==
    FromLanes(Lane(a, Sel(imm, 0)), Lane(a, Sel(imm, 1)),
              Lane(b, Sel(imm, 2)), Lane(b, Sel(imm, 3)))

\* _mm_shuffle_epi32(a, imm8)
mm_shuffle_epi32(a, imm) ==
    FromLanes(Lane(a, Sel(imm, 0)), Lane(a, Sel(imm, 1)),
              Lane(a, Sel(imm, 2)), Lane(a, Sel(imm, 3)))

SubWord(w) == Word([j \in 1..4 |-> SubByte(w[j])])

\* RotWord of the instruction: the 32-bit value rotated right by 8 bits.
RotWord(w) == <<w[2], w[3], w[4], w[1]>>

XorRcon(w, rcon) == <<xor8(w[1], rcon), w[2], w[3], w[4]>>

\* _mm_aeskeygenassist_si128(a, imm8)
mm_aeskeygenassist_si128(a, rcon) ==
    LET X1 == Lane(a, 1)
        X3 == Lane(a, 3)
    IN  FromLanes(SubWord(X1), XorRcon(RotWord(SubWord(X1)), rcon),
                  SubWord(X3), XorRcon(RotWord(SubWord(X3)), rcon))

(***************************************************************************)
(* The aarch64 instructions the code calls.                                *)
(***************************************************************************)
\* vaeseq_u8(data, key): AddRoundKey, then SubBytes and ShiftRows
vaeseq_u8(data, key) == SubBytes(ShiftRows(mm_xor_si128(data, key)))

\* vaesmcq_u8(data): MixColumns
vaesmcq_u8(data) == MixColumns(data)

\* veorq_u8(a, b)
veorq_u8(a, b) == mm_xor_si128(a, b)

(***************************************************************************)
(* Key expansion: Aes::new / Aes::aes_init (x86).                          *)
(***************************************************************************)
\* expand_assist_x86!(v1, v2, v3, v4, sc, ac): the values of v1, v2, v3
\* after the macro's seven assignments.
expand_assist_x86(v1, v2, v3, v4, sc, ac) ==
    LET v2a == mm_aeskeygenassist_si128(v4, ac)
        v3a == mm_shuffle_ps(v3, v1, 16)
        v1a == mm_xor_si128(v1, v3a)
        v3b == mm_shuffle_ps(v3a, v1a, 140)
        v1b == mm_xor_si128(v1a, v3b)
        v2b == mm_shuffle_epi32(v2a, sc)
        v1c == mm_xor_si128(v1b, v2b)
    IN  [v1 |-> v1c, v2 |-> v2b, v3 |-> v3b]

\* The immediates with the last two reduced by the wrong polynomial.
AssistConstants_wrong_reduction == <<1, 2, 4, 8, 16, 32, 64, 128, 29, 58>>

\* The immediates of the ten expand_assist_x86! calls of aes_init, in order.
AssistConstants == <<1, 2, 4, 8, 16, 32, 64, 128, 27, 54>>

\* The ten macro calls of aes_init from call n on: kp holds kp[0..n-1],
\* st the registers x0, _x1, x2.
RECURSIVE aes_init_from(_, _, _)
aes_init_from(kp, st, n) ==
    IF n > Len(AssistConstants) \/ Len(kp) # n THEN kp
    ELSE LET nx == expand_assist_x86(st.v1, st.v2, st.v3, st.v1, 255,
                                     AssistConstants[n])
         IN  aes_init_from(Append(kp, nx.v1), nx, n + 1)

\* Aes::aes_init(key) / Aes::new(key)
aes_init(key) ==
    aes_init_from(<<key>>, [v1 |-> key, v2 |-> ZERO, v3 |-> ZERO], 1)

(***************************************************************************)
(* Single-block encryption: Aes::encrypt_block / Aes::encrypt_backend.     *)
(***************************************************************************)
\* x86: `for key in self.0[1..10].iter() { ctxt = _mm_aesenc_si128(ctxt, key.0) }`
\* from key index r (a position in kp, self.0[r-1]) up to self.0[9].
\* (In the round loops the test on Len(ctxt) is always false for a Block or
\* a non-empty batch; it has ctxt computed before the next round starts.)
RECURSIVE x86_rounds(_, _, _)
x86_rounds(kp, ctxt, r) ==
    IF r > 10 \/ Len(ctxt) # 16 THEN ctxt
    ELSE x86_rounds(kp, mm_aesenc_si128(ctxt, kp[r]), r + 1)

encrypt_backend_x86(kp, blk) ==
    LET c0 == mm_xor_si128(blk, kp[1])
        c9 == x86_rounds(kp, c0, 2)
    IN  mm_aesenclast_si128(c9, kp[11])

\* aarch64: `for key in self.0.iter().take(9) { ctxt = vaesmcq_u8(vaeseq_u8(ctxt, key.0)) }`
RECURSIVE arm_rounds(_, _, _)
arm_rounds(kp, ctxt, r) ==
    IF r > 9 \/ Len(ctxt) # 16 THEN ctxt
    ELSE arm_rounds(kp, vaesmcq_u8(vaeseq_u8(ctxt, kp[r])), r + 1)

\* The aarch64 sequence without the final XOR with self.0[10].
encrypt_backend_arm_no_last_xor(kp, blk) ==
    LET c9 == arm_rounds(kp, blk, 1)
    IN  vaeseq_u8(c9, kp[10])

encrypt_backend_arm(kp, blk) ==
    LET c9 == arm_rounds(kp, blk, 1)
    IN  veorq_u8(vaeseq_u8(c9, kp[10]), kp[11])

\* The backend the build compiled in.
encrypt_backend(a, kp, blk) ==
    IF a = "aarch64" THEN encrypt_backend_arm(kp, blk)
    ELSE encrypt_backend_x86(kp, blk)

\* Aes::encrypt_block
encrypt_block(a, kp, blk) == encrypt_backend(a, kp, blk)

(***************************************************************************)
(* Batch encryption: Aes::encrypt_many_blocks.                             *)
(***************************************************************************)
\* x86: the key loop around the block loop, from key position r on.
RECURSIVE x86_many_rounds(_, _, _)
x86_many_rounds(kp, ctxt, r) ==
    IF r > 10 \/ Len(ctxt) = 0 THEN ctxt
    ELSE x86_many_rounds(kp,
            Regs([n \in 1..Len(ctxt) |-> mm_aesenc_si128(ctxt[n], kp[r])], Len(ctxt)), r + 1)

unsafe_encrypt_many_blocks_x86(kp, bs) ==
    LET c0 == Regs([n \in 1..Len(bs) |-> mm_xor_si128(bs[n], kp[1])], Len(bs))
        c9 == x86_many_rounds(kp, c0, 2)
    IN  Regs([n \in 1..Len(bs) |-> mm_aesenclast_si128(c9[n], kp[11])], Len(bs))

\* aarch64: the key loop around the block loop, from key position r on.
RECURSIVE arm_many_rounds(_, _, _)
arm_many_rounds(kp, ctxt, r) ==
    IF r > 9 \/ Len(ctxt) = 0 THEN ctxt
    ELSE arm_many_rounds(kp,
            Regs([n \in 1..Len(ctxt) |-> vaesmcq_u8(vaeseq_u8(ctxt[n], kp[r]))], Len(ctxt)), r + 1)

unsafe_encrypt_many_blocks_arm(kp, bs) ==
    LET c9 == arm_many_rounds(kp, bs, 1)
    IN  Regs([n \in 1..Len(bs) |-> veorq_u8(vaeseq_u8(c9[n], kp[10]), kp[11])], Len(bs))

\* Aes::encrypt_many_blocks::<N>, N = Len(bs)
encrypt_many_blocks(a, kp, bs) ==
    IF a = "aarch64" THEN unsafe_encrypt_many_blocks_arm(kp, bs)
    ELSE unsafe_encrypt_many_blocks_x86(kp, bs)

(***************************************************************************)
(* Slice encryption: Aes::encrypt_block_slice.                             *)
(***************************************************************************)
\* blks[from..from+Len(src)] .copy_from_slice(src), `from` a 0-based offset
copy_into(bl, from, src) ==
    Regs([n \in 1..Len(bl) |->
            IF n > from /\ n <= from + Len(src) THEN src[n - from] ELSE bl[n]],
         Len(bl))

\* The write-back count of every index in from+1..from+cnt raised by one.
count_into(en, from, cnt) ==
    [n \in 1..Len(en) |-> IF n > from /\ n <= from + cnt THEN en[n] + 1 ELSE en[n]]

\* The batch loop writing every encrypted buf back to blks[0..8].
encrypt_batch_no_offset(a, kp, bl, it) ==
    LET buf == SubSeq(bl, it * 8 + 1, (it + 1) * 8)
    IN  copy_into(bl, 0, encrypt_many_blocks(a, kp, buf))

\* One iteration of `for i in 0..len / 8`: buf is blks[i*8..(i+1)*8], and
\* the encrypted buf is copied back over the same range.
encrypt_batch(a, kp, bl, it) ==
    LET buf == SubSeq(bl, it * 8 + 1, (it + 1) * 8)
    IN  copy_into(bl, it * 8, encrypt_many_blocks(a, kp, buf))

\* encrypt_some!(n): when remain = n, blks[len - remain..] goes through a
\* buffer of n blocks and back.  st is [blks, encs].
encrypt_some(a, kp, st, len, remain, n) ==
    IF remain = n
    THEN LET buf == SubSeq(st.blks, len - remain + 1, len)
         IN  [blks |-> copy_into(st.blks, len - remain,
                                 encrypt_many_blocks(a, kp, buf)),
              encs |-> count_into(st.encs, len - remain, Len(buf))]
    ELSE st

\* encrypt_some!(n); ...; encrypt_some!(7);
RECURSIVE encrypt_some_from(_, _, _, _, _, _)
encrypt_some_from(a, kp, st, len, remain, n) ==
    IF n > 7 \/ Len(st.blks) # len THEN st
    ELSE encrypt_some_from(a, kp, encrypt_some(a, kp, st, len, remain, n),
                           len, remain, n + 1)

\* The part of encrypt_block_slice after the batch loop.
encrypt_remainder(a, kp, st) ==
    LET len    == Len(st.blks)
        remain == len % 8
    IN  IF remain > 0 THEN encrypt_some_from(a, kp, st, len, remain, 1) ELSE st

(***************************************************************************)
(* Inputs.                                                                 *)
(***************************************************************************)
\* Longest slice given to encrypt_block_slice.
MaxLen == 33

\* Largest N of encrypt_many_blocks::<N> called directly.
MaxBatch == 4

\* Number of distinct fillings of a slice.
NumSeeds == 2

\* Key 00 01 02 ... 0f and plaintext 00 11 22 ... ff (FIPS-197 appendix C.1)
KatKey == Reg([j \in 1..16 |-> j - 1])
KatPlain == Reg([j \in 1..16 |-> 17 * (j - 1)])

\* Key 2b 7e 15 16 28 ae d2 a6 ab f7 15 88 09 cf 4f 3c (FIPS-197 appendix A.1)
Key2 == <<43, 126, 21, 22, 40, 174, 210, 166, 171, 247, 21, 136, 9, 207, 79, 60>>

Keys == {KatKey, Key2, ZERO}

\* Block n of filling `seed`: blocks of one filling differ pairwise.
PatBlock(seed, n) ==
    Reg([j \in 1..16 |-> IF j = 1 THEN n % 256 ELSE (85 * seed + 16 * n + 3 * j) % 256])

BlocksOf(seed, len) == Regs([n \in 1..len |-> PatBlock(seed, n)], len)

Plaintexts == {KatPlain, ZERO} \cup {PatBlock(s, n) : s \in 1..NumSeeds, n \in 1..3}

(***************************************************************************)
(* The state machine of one Aes value on an x86 build.                     *)
(***************************************************************************)
InitBlock ==
    /\ pc = "block"
    /\ pt \in Plaintexts
    /\ ct = <<>>
    /\ blks = <<>> /\ orig = <<>> /\ i = 0 /\ encs = <<>>

InitMany ==
    /\ pc = "many"
    /\ \E s \in 1..NumSeeds, n \in 0..MaxBatch : blks = BlocksOf(s, n)
    /\ orig = blks
    /\ pt = ZERO /\ ct = <<>> /\ i = 0 /\ encs = <<>>

InitSlice ==
    /\ pc = "slice"
    /\ \E s \in 1..NumSeeds, n \in 0..MaxLen : blks = BlocksOf(s, n)
    /\ orig = blks
    /\ i = 0
    /\ encs = [n \in 1..Len(blks) |-> 0]
    /\ pt = ZERO /\ ct = <<>>

\* No Widening call and no division in progress.
WideIdle ==
    /\ bits = 8 /\ xs = <<>> /\ ys = <<>> /\ cy = FALSE /\ flag = FALSE
    /\ cw = 0 /\ zs = <<>> /\ hi = 0 /\ ovf = FALSE

DivIdle ==
    /\ signed = FALSE /\ overflow_checks = FALSE
    /\ dividend = 0 /\ divisor = 1 /\ res = <<>>

Init ==
    /\ arch = "x86_64"
    /\ \E key \in Keys : aes = aes_init(key)
    /\ (InitBlock \/ InitMany \/ InitSlice)
    /\ WideIdle
    /\ DivIdle

\* encrypt_block(blk)
EncryptBlock ==
    /\ pc = "block"
    /\ ct' = encrypt_block(arch, aes, pt)
    /\ pc' = "block_done"
    /\ UNCHANGED <<arch, aes, pt, blks, orig, i, encs, wideVars, divVars>>

\* encrypt_many_blocks::<N>(blks)
EncryptManyBlocks ==
    /\ pc = "many"
    /\ blks' = encrypt_many_blocks(arch, aes, blks)
    /\ pc' = "many_done"
    /\ UNCHANGED <<arch, aes, pt, ct, orig, i, encs, wideVars, divVars>>

\* encrypt_block_slice(blks): one iteration of the batch loop
SliceBatch ==
    /\ pc = "slice"
    /\ i < Len(blks) \div 8
    /\ blks' = encrypt_batch(arch, aes, blks, i)
    /\ encs' = count_into(encs, i * 8, 8)
    /\ i' = i + 1
    /\ UNCHANGED <<arch, aes, pc, pt, ct, orig, wideVars, divVars>>

\* encrypt_block_slice(blks): the remainder, and the return
SliceRemainder ==
    /\ pc = "slice"
    /\ i >= Len(blks) \div 8
    /\ LET st == encrypt_remainder(arch, aes, [blks |-> blks, encs |-> encs])
       IN  /\ blks' = st.blks
           /\ encs' = st.encs
    /\ pc' = "slice_done"
    /\ UNCHANGED <<arch, aes, pt, ct, orig, i, wideVars, divVars>>

Next == EncryptBlock \/ EncryptManyBlocks \/ SliceBatch \/ SliceRemainder

Spec == Init /\ [][Next]_vars

(***************************************************************************)
(* The two backends on one schedule: the same calls with the build's       *)
(* target_arch and the 11 round keys left open.                            *)
(***************************************************************************)
\* Eleven blocks that are no key expansion of anything.
PatSchedule == Regs([r \in 1..11 |-> PatBlock(3, r)], 11)

Schedules == {aes_init(key) : key \in Keys} \cup {PatSchedule}

InitBackends ==
    /\ arch \in {"x86_64", "aarch64"}
    /\ aes \in Schedules
    /\ (InitBlock \/ InitMany)
    /\ WideIdle
    /\ DivIdle

NextBackends == EncryptBlock \/ EncryptManyBlocks

SpecBackends == InitBackends /\ [][NextBackends]_vars

(***************************************************************************)
(* C1                                                                      *)
(***************************************************************************)
\* C1: when encrypt_block_slice has returned, the slice has the length it
\* had, every index holds encrypt_block of what it held at the call, and
\* every index was written back exactly once.
C1_SliceEqualsSingleBlocks ==
    pc = "slice_done" =>
        /\ Len(blks) = Len(orig)
        /\ \A n \in 1..Len(orig) :
              /\ blks[n] = encrypt_block(arch, aes, orig[n])
              /\ encs[n] = 1

\* A slice of several full batches and a remainder has been encrypted.
C1_Witness ==
    /\ pc = "slice_done"
    /\ Len(orig) = MaxLen
    /\ i = MaxLen \div 8
    /\ blks # orig

(***************************************************************************)
(* C8                                                                      *)
(***************************************************************************)
\* Rcon[n] of FIPS-197: x^(n-1) in GF(2^8).
RECURSIVE Rcon(_)
Rcon(n) == IF n = 1 THEN 1 ELSE xtime(Rcon(n - 1))

XorWord(u, v) == Word([j \in 1..4 |-> xor8(u[j], v[j])])

\* KeyExpansion of FIPS-197 section 5.2 for Nk = 4: the words w[0..n-1]
\* extended to w[0..43].
RECURSIVE KeyExpansionFrom(_, _)
KeyExpansionFrom(w, n) ==
    IF n >= 44 \/ Len(w) # n THEN w
    ELSE LET prev == w[n]
             temp == IF n % 4 = 0
                     THEN XorRcon(SubWord(RotWord(prev)), Rcon(n \div 4))
                     ELSE prev
         IN  KeyExpansionFrom(Append(w, XorWord(w[n - 3], temp)), n + 1)

\* The eleven round keys of FIPS-197 for `key`.
KeyExpansion(key) ==
    LET w == KeyExpansionFrom(<<Lane(key, 0), Lane(key, 1), Lane(key, 2), Lane(key, 3)>>, 4)
    IN  Regs([r \in 1..11 |->
                FromLanes(w[4 * r - 3], w[4 * r - 2], w[4 * r - 1], w[4 * r])], 11)

\* 69 c4 e0 d8 6a 7b 04 30 d8 cd b7 80 70 b4 c5 5a
KatCipher == <<105, 196, 224, 216, 106, 123, 4, 48, 216, 205, 183, 128, 112, 180, 197, 90>>

\* round[10].k_sch of FIPS-197 appendix C.1: 13 11 1d 7f e3 94 4a 17 f3 07 a7 8b 4d 2b 30 c5
KatLastRoundKey == <<19, 17, 29, 127, 227, 148, 74, 23, 243, 7, 167, 139, 77, 43, 48, 197>>

\* C8: the round keys Aes::new builds are the FIPS-197 key expansion of the
\* key (round key 0 the key itself, round constants 1, 2, 4, ..., 27, 54),
\* and encrypt_block of 00 11 .. ff under key 00 01 .. 0f is
\* 69c4e0d86a7b0430d8cdb78070b4c55a.
C8_StandardAes128 ==
    /\ Len(aes) = 11
    /\ aes = KeyExpansion(aes[1])
    /\ [n \in 1..10 |-> Rcon(n)] = <<1, 2, 4, 8, 16, 32, 64, 128, 27, 54>>
    /\ (aes[1] = KatKey => aes[11] = KatLastRoundKey)
    /\ (pc = "block_done" /\ aes[1] = KatKey /\ pt = KatPlain => ct = KatCipher)

\* encrypt_block has returned for the known-answer key and plaintext.
C8_Witness == pc = "block_done" /\ aes[1] = KatKey /\ pt = KatPlain /\ Len(ct) = 16

(***************************************************************************)
(* C10                                                                     *)
(***************************************************************************)
\* C10: on any 11-entry schedule, what encrypt_block returned on the build's
\* backend is what the x86 sequence and the aarch64 sequence both give for
\* the argument, and so is every position of what encrypt_many_blocks
\* returned.
C10_BackendsAgree ==
    /\ pc = "block_done" =>
          /\ ct = encrypt_backend_x86(aes, pt)
          /\ ct = encrypt_backend_arm(aes, pt)
    /\ pc = "many_done" =>
          /\ Len(blks) = Len(orig)
          /\ \A n \in 1..Len(orig) :
                /\ blks[n] = unsafe_encrypt_many_blocks_x86(aes, orig)[n]
                /\ blks[n] = unsafe_encrypt_many_blocks_arm(aes, orig)[n]

\* encrypt_many_blocks has returned a full batch on an aarch64 build.
C10_Witness == pc = "many_done" /\ arch = "aarch64" /\ Len(blks) = MaxBatch /\ blks # orig

(***************************************************************************)
(* Widening for the unsigned types: uint_widening_impl!.                   *)
(***************************************************************************)
\* Self::overflowing_add for a type of w bits
overflowing_add(w, a, b) == <<(a + b) % (2 ^ w), a + b >= 2 ^ w>>

\* Self::overflowing_sub for a type of w bits
overflowing_sub(w, a, b) == <<(a - b) % (2 ^ w), a < b>>

\* `carry as Self`, `borrow as Self`
bool_as_Self(c) == IF c THEN 1 ELSE 0

\* carry_add returning only the overflow of the second addition.
carry_add_second_flag_only(w, self, rhs, carry) ==
    LET ab == overflowing_add(w, self, rhs)
        cd == overflowing_add(w, ab[1], bool_as_Self(carry))
    IN  <<cd[1], cd[2]>>

\* carry_add(self, rhs, carry)
carry_add(w, self, rhs, carry) ==
    LET ab == overflowing_add(w, self, rhs)
        cd == overflowing_add(w, ab[1], bool_as_Self(carry))
    IN  <<cd[1], ab[2] \/ cd[2]>>

\* borrow_sub returning only the underflow of the first subtraction.
borrow_sub_first_flag_only(w, self, rhs, borrow) ==
    LET ab == overflowing_sub(w, self, rhs)
        cd == overflowing_sub(w, ab[1], bool_as_Self(borrow))
    IN  <<cd[1], ab[2]>>

\* borrow_sub(self, rhs, borrow)
borrow_sub(w, self, rhs, borrow) ==
    LET ab == overflowing_sub(w, self, rhs)
        cd == overflowing_sub(w, ab[1], bool_as_Self(borrow))
    IN  <<cd[1], ab[2] \/ cd[2]>>

\* `*` and `+` of Self::WideT, a type of 2w bits: the wrapped value, and
\* whether the exact value did not fit (a panic with overflow checks on).
wide_mul(w, a, b) == [val |-> (a * b) % (2 ^ (2 * w)), overflow |-> a * b >= 2 ^ (2 * w)]
wide_add(w, a, b) == [val |-> (a + b) % (2 ^ (2 * w)), overflow |-> a + b >= 2 ^ (2 * w)]

\* `wide as Self`
wide_as_Self(w, wide) == wide % (2 ^ w)

\* `(wide >> Self::BITS) as Self`
wide_high_as_Self(w, wide) == (wide \div (2 ^ w)) % (2 ^ w)

\* widen_mul multiplying in Self (wrapping), without the casts to WideT.
widen_mul_no_cast(w, self, rhs) ==
    LET wide == (self * rhs) % (2 ^ w)
    IN  [low |-> wide_as_Self(w, wide),
         high |-> wide_high_as_Self(w, wide),
         overflow |-> FALSE]

\* widen_mul(self, rhs): low, high, and whether WideT overflowed
widen_mul(w, self, rhs) ==
    LET wide == wide_mul(w, self, rhs)
    IN  [low |-> wide_as_Self(w, wide.val),
         high |-> wide_high_as_Self(w, wide.val),
         overflow |-> wide.overflow]

\* carry_mul adding carry to the low word after the split.
carry_mul_add_after_split(w, self, rhs, carry) ==
    LET wide == wide_mul(w, self, rhs)
    IN  [low |-> (wide_as_Self(w, wide.val) + carry) % (2 ^ w),
         high |-> wide_high_as_Self(w, wide.val),
         overflow |-> wide.overflow]

\* carry_mul(self, rhs, carry): low, high, and whether WideT overflowed
carry_mul(w, self, rhs, carry) ==
    LET prod == wide_mul(w, self, rhs)
        wide == wide_add(w, prod.val, carry)
    IN  [low |-> wide_as_Self(w, wide.val),
         high |-> wide_high_as_Self(w, wide.val),
         overflow |-> prod.overflow \/ wide.overflow]

(***************************************************************************)
(* Inputs of the Widening calls.                                           *)
(***************************************************************************)
\* Most limbs of a number added limb by limb.
MaxLimbs == 2

\* Most bits of such a number (its value is computed as one integer).
MaxChainBits == 24

\* The instantiations whose carry_add / borrow_sub are run, and those whose
\* widen_mul / carry_mul are run (the product of two 16-bit words needs an
\* integer of 32 bits).
AddWidths == {8, 16}
MulWidths == {8}

\* Words of w bits around 0, the sign bit and the maximum.
Samples(w) == {0, 1, 2 ^ (w - 1) - 1, 2 ^ (w - 1), 2 ^ w - 2, 2 ^ w - 1}

\* Further 8-bit words for the multiplications.
MulSamples(w) == Samples(w) \cup {2, 3, 15, 16, 17, 85, 170, 200}

\* The number whose little-endian limbs of w bits are `limbs`.
RECURSIVE ValueOf(_, _)
ValueOf(limbs, w) ==
    IF Len(limbs) = 0 THEN 0
    ELSE limbs[1] + (2 ^ w) * ValueOf(Tail(limbs), w)

AesIdle ==
    /\ arch = "x86_64" /\ aes = <<>> /\ pt = ZERO /\ ct = <<>>
    /\ blks = <<>> /\ orig = <<>> /\ i = 0 /\ encs = <<>>

InitCarryAdd ==
    /\ pc = "carry_add"
    /\ bits \in AddWidths
    /\ \E k \in 1..MaxLimbs :
          /\ k * bits <= MaxChainBits
          /\ xs \in [1..k -> Samples(bits)]
          /\ ys \in [1..k -> Samples(bits)]
    /\ cy = FALSE
    /\ cw = 0

InitBorrowSub ==
    /\ pc = "borrow_sub"
    /\ bits \in AddWidths
    /\ xs \in [1..1 -> Samples(bits)]
    /\ ys \in [1..1 -> Samples(bits)]
    /\ cy \in BOOLEAN
    /\ cw = 0

InitWidenMul ==
    /\ pc = "widen_mul"
    /\ bits \in MulWidths
    /\ xs \in [1..1 -> MulSamples(bits)]
    /\ ys \in [1..1 -> MulSamples(bits)]
    /\ cy = FALSE
    /\ cw = 0

InitCarryMul ==
    /\ pc = "carry_mul"
    /\ bits \in MulWidths
    /\ xs \in [1..1 -> MulSamples(bits)]
    /\ ys \in [1..1 -> MulSamples(bits)]
    /\ cy = FALSE
    /\ cw \in Samples(bits)

InitWidening ==
    /\ (InitCarryAdd \/ InitBorrowSub \/ InitWidenMul \/ InitCarryMul)
    /\ zs = <<>> /\ flag = FALSE /\ hi = 0 /\ ovf = FALSE
    /\ AesIdle
    /\ DivIdle

\* The next limb of a limb-by-limb addition: carry_add on limb Len(zs)+1 with
\* the carry the limb before returned.
CarryAddLimb ==
    /\ pc = "carry_add"
    /\ LET n == Len(zs) + 1
           r == carry_add(bits, xs[n], ys[n], cy)
       IN  /\ zs' = Append(zs, r[1])
           /\ flag' = r[2]
           /\ cy' = r[2]
           /\ pc' = IF n = Len(xs) THEN "carry_add_done" ELSE "carry_add"
    /\ UNCHANGED <<bits, xs, ys, cw, hi, ovf, aesVars, divVars>>

\* borrow_sub(xs[1], ys[1], cy)
BorrowSub ==
    /\ pc = "borrow_sub"
    /\ LET r == borrow_sub(bits, xs[1], ys[1], cy)
       IN  /\ zs' = <<r[1]>>
           /\ flag' = r[2]
    /\ pc' = "borrow_sub_done"
    /\ UNCHANGED <<bits, xs, ys, cy, cw, hi, ovf, aesVars, divVars>>

\* widen_mul(xs[1], ys[1])
WidenMul ==
    /\ pc = "widen_mul"
    /\ LET r == widen_mul(bits, xs[1], ys[1])
       IN  /\ zs' = <<r.low>>
           /\ hi' = r.high
           /\ ovf' = r.overflow
    /\ pc' = "widen_mul_done"
    /\ UNCHANGED <<bits, xs, ys, cy, flag, cw, aesVars, divVars>>

\* carry_mul(xs[1], ys[1], cw)
CarryMul ==
    /\ pc = "carry_mul"
    /\ LET r == carry_mul(bits, xs[1], ys[1], cw)
       IN  /\ zs' = <<r.low>>
           /\ hi' = r.high
           /\ ovf' = r.overflow
    /\ pc' = "carry_mul_done"
    /\ UNCHANGED <<bits, xs, ys, cy, flag, cw, aesVars, divVars>>

NextWidening == CarryAddLimb \/ BorrowSub \/ WidenMul \/ CarryMul

SpecWidening == InitWidening /\ [][NextWidening]_vars

C3_BorrowSub ==
    pc = "borrow_sub_done" =>
        LET a == xs[1]
            b == ys[1]
            borrow_in == IF cy THEN 1 ELSE 0
        IN  /\ zs[1] \in 0..(2 ^ bits - 1)
            /\ zs[1] = (a - b - borrow_in) % (2 ^ bits)
            /\ flag = (a - b - borrow_in < 0)
            /\ flag = ((a < b) \/ ((a - b) % (2 ^ bits) < borrow_in))

\* The borrow alone underflows: a = b with borrow_in set.
C3_Witness ==
    /\ pc = "borrow_sub_done"
    /\ xs[1] = ys[1]
    /\ cy
    /\ flag
    /\ zs[1] = 2 ^ bits - 1

(***************************************************************************)
(* C4                                                                      *)
(***************************************************************************)
\* C4: carry_mul(a, b, carry) = (low, high) has high * 2^W + low = a * b + carry
\* over the integers, a * b + carry is at most 2^(2W) - 1 and the WideT
\* arithmetic does not overflow.
C4_CarryMulExact ==
    pc = "carry_mul_done" =>
        LET a == xs[1]
            b == ys[1]
        IN  /\ zs[1] \in 0..(2 ^ bits - 1)
            /\ hi \in 0..(2 ^ bits - 1)
            /\ hi * (2 ^ bits) + zs[1] = a * b + cw
            /\ a * b + cw <= 2 ^ (2 * bits) - 1
            /\ ~ovf

\* All three arguments at their maximum.
C4_Witness ==
    /\ pc = "carry_mul_done"
    /\ xs[1] = 2 ^ bits - 1
    /\ ys[1] = 2 ^ bits - 1
    /\ cw = 2 ^ bits - 1
    /\ hi = 2 ^ bits - 1
    /\ zs[1] = 0

(***************************************************************************)
(* C5                                                                      *)
(***************************************************************************)
\* C5: widen_mul(a, b) = (low, high) has high * 2^W + low = a * b over the
\* integers, low = (a * b) mod 2^W and high = floor(a * b / 2^W).
C5_WidenMulExact ==
    pc = "widen_mul_done" =>
        LET a == xs[1]
            b == ys[1]
        IN  /\ hi * (2 ^ bits) + zs[1] = a * b
            /\ zs[1] = (a * b) % (2 ^ bits)
            /\ hi = (a * b) \div (2 ^ bits)
            /\ ~ovf

\* A product that needs the high word.
C5_Witness ==
    /\ pc = "widen_mul_done"
    /\ xs[1] = 2 ^ bits - 1
    /\ ys[1] = 2 ^ bits - 1
    /\ hi = 2 ^ bits - 2
    /\ zs[1] = 1

(***************************************************************************)
(* Integer arithmetic of the primitive types, as div_ceil and rounded_div  *)
(* use it.  A call ends Ok(value) or in a panic.                           *)
(***************************************************************************)
Ok(v) == [kind |-> "ok", value |-> v]
Panic(why) == [kind |-> "panic", value |-> why]

\* $data::MIN and $data::MAX
MinOf(sg, w) == IF sg THEN -(2 ^ (w - 1)) ELSE 0
MaxOf(sg, w) == IF sg THEN 2 ^ (w - 1) - 1 ELSE 2 ^ w - 1

\* The value of the type congruent to v modulo 2^w.
Wrap(sg, w, v) ==
    LET u == v % (2 ^ w)
    IN  IF sg /\ u >= 2 ^ (w - 1) THEN u - 2 ^ w ELSE u

\* `a + b` and `a - b`: outside the type the operation panics with overflow
\* checks on and wraps with them off.
arith(sg, w, oc, exact) ==
    IF exact >= MinOf(sg, w) /\ exact <= MaxOf(sg, w) THEN Ok(exact)
    ELSE IF oc THEN Panic("Overflow")
    ELSE Ok(Wrap(sg, w, exact))

int_add(sg, w, oc, a, b) == arith(sg, w, oc, a + b)
int_sub(sg, w, oc, a, b) == arith(sg, w, oc, a - b)

\* The quotient rounded toward zero.
trunc_div(a, b) ==
    LET aa == IF a < 0 THEN -a ELSE a
        bb == IF b < 0 THEN -b ELSE b
        q  == aa \div bb
    IN  IF (a < 0) = (b < 0) THEN q ELSE -q

\* `a / b`: panics on a zero divisor, and on MIN / -1, in every build.
int_div(sg, w, a, b) ==
    IF b = 0 THEN Panic("DivisionByZero")
    ELSE IF sg /\ a = MinOf(sg, w) /\ b = -1 THEN Panic("Overflow")
    ELSE Ok(trunc_div(a, b))

\* `a % b` of an unsigned type
int_rem(a, b) == IF b = 0 THEN Panic("DivisionByZero") ELSE Ok(a % b)

\* `a ^ b` of a signed type of w bits: bitwise on the two's complements
int_xor(w, a, b) == Wrap(TRUE, w, BitXor(a % (2 ^ w), b % (2 ^ w), w))

\* div_ceil(lhs, rhs) on u32.  d + 1 is at most lhs, so it stays in u32.
div_ceil(lhs, rhs) ==
    LET d == int_div(FALSE, 32, lhs, rhs)
        r == int_rem(lhs, rhs)
    IN  IF d.kind = "panic" THEN d
        ELSE IF r.kind = "panic" THEN r
        ELSE IF r.value > 0 THEN Ok(d.value + 1)
        ELSE d

\* The unsigned division answering 0 for a zero divisor.
rounded_div_unsigned_zero_on_zero(w, oc, dd, dv) ==
    LET sum == int_add(FALSE, w, oc, dd, dv \div 2)
    IN  IF sum.kind = "panic" THEN sum
        ELSE IF dv = 0 THEN Ok(0)
        ELSE int_div(FALSE, w, sum.value, dv)

\* unsigned_div_fn!: (dividend + (divisor >> 1)) / divisor
rounded_div_unsigned(w, oc, dd, dv) ==
    LET sum == int_add(FALSE, w, oc, dd, dv \div 2)
    IN  IF sum.kind = "panic" THEN sum
        ELSE int_div(FALSE, w, sum.value, dv)

\* signed_div_fn!
rounded_div_signed(w, oc, dd, dv) ==
    IF int_xor(w, dd, dv) >= 0
    THEN LET sum == int_add(TRUE, w, oc, dd, trunc_div(dv, 2))
         IN  IF sum.kind = "panic" THEN sum
             ELSE int_div(TRUE, w, sum.value, dv)
    ELSE LET dif == int_sub(TRUE, w, oc, dd, trunc_div(dv, 2))
         IN  IF dif.kind = "panic" THEN dif
             ELSE int_div(TRUE, w, dif.value, dv)

\* RoundedDiv::rounded_div of the type (signed or not) of w bits
rounded_div(sg, w, oc, dd, dv) ==
    IF sg THEN rounded_div_signed(w, oc, dd, dv)
    ELSE rounded_div_unsigned(w, oc, dd, dv)

(***************************************************************************)
(* Inputs of the divisions.                                                *)
(***************************************************************************)
\* Dividends and divisors are taken up to this distance from 0 and from the
\* ends of the type.
MaxSmall == 7

\* The instantiations of rounded_div that are run.
DivWidths == {8, 16}

DivSamples(sg, w) ==
    ((IF sg THEN -MaxSmall ELSE 0)..MaxSmall)
        \cup (MinOf(sg, w)..(MinOf(sg, w) + 2))
        \cup ((MaxOf(sg, w) - 2)..MaxOf(sg, w))
        \cup {2 ^ (w - 2)}

\* Arguments of div_ceil (u32; the integers here end at 2^31 - 1).
CeilSamples == (0..MaxSmall) \cup {1000, 65536, 2147483646, 2147483647}

InitRoundedDiv ==
    /\ pc = "rounded_div"
    /\ bits \in DivWidths
    /\ signed \in BOOLEAN
    /\ overflow_checks \in BOOLEAN
    /\ dividend \in DivSamples(signed, bits)
    /\ divisor \in DivSamples(signed, bits)

InitDivCeil ==
    /\ pc = "div_ceil"
    /\ bits = 32
    /\ signed = FALSE
    /\ overflow_checks \in BOOLEAN
    /\ dividend \in CeilSamples
    /\ divisor \in CeilSamples

InitDiv ==
    /\ (InitRoundedDiv \/ InitDivCeil)
    /\ res = <<>>
    /\ xs = <<>> /\ ys = <<>> /\ cy = FALSE /\ flag = FALSE
    /\ cw = 0 /\ zs = <<>> /\ hi = 0 /\ ovf = FALSE
    /\ AesIdle

\* dividend.rounded_div(divisor)
RoundedDiv ==
    /\ pc = "rounded_div"
    /\ res' = rounded_div(signed, bits, overflow_checks, dividend, divisor)
    /\ pc' = "rounded_div_done"
    /\ UNCHANGED <<signed, overflow_checks, dividend, divisor, aesVars, wideVars>>

\* div_ceil(dividend, divisor)
DivCeil ==
    /\ pc = "div_ceil"
    /\ res' = div_ceil(dividend, divisor)
    /\ pc' = "div_ceil_done"
    /\ UNCHANGED <<signed, overflow_checks, dividend, divisor, aesVars, wideVars>>

NextDiv == RoundedDiv \/ DivCeil

SpecDiv == InitDiv /\ [][NextDiv]_vars

(***************************************************************************)
(* C6                                                                      *)
(***************************************************************************)
\* C6: for every unsigned dividend d and divisor v # 0, rounded_div(d, v)
\* returns d / v rounded to the nearest integer, ties up:
\* floor((2 * d + v) / (2 * v)).
C6_UnsignedRoundsHalfUp ==
    pc = "rounded_div_done" /\ ~signed /\ divisor # 0 =>
        res = Ok((2 * dividend + divisor) \div (2 * divisor))

(***************************************************************************)
(* C7                                                                      *)
(***************************************************************************)
\* d / v rounded to the nearest integer, ties away from zero.
RoundHalfAway(d, v) ==
    LET ad == IF d < 0 THEN -d ELSE d
        av == IF v < 0 THEN -v ELSE v
        q  == (2 * ad + av) \div (2 * av)
    IN  IF (d < 0) = (v < 0) THEN q ELSE -q

\* C7: for every signed dividend d and divisor v # 0, the extreme values of
\* the type included, rounded_div(d, v) returns d / v rounded to the nearest
\* integer, ties away from zero.
C7_SignedRoundsHalfAway ==
    pc = "rounded_div_done" /\ signed /\ divisor # 0 =>
        res = Ok(RoundHalfAway(dividend, divisor))

(***************************************************************************)
(* C9                                                                      *)
(***************************************************************************)
\* C9: rounded_div with divisor 0, signed or unsigned, whatever the sign of
\* the dividend, and div_ceil with rhs 0 end in the division-by-zero panic
\* and return no quotient.
C9_ZeroDivisorPanics ==
    (pc \in {"rounded_div_done", "div_ceil_done"} /\ divisor = 0) =>
        res = Panic("DivisionByZero")

\* A signed division of a negative dividend by 0 (the mixed-sign branch,
\* since dividend ^ 0 < 0) has ended.
C9_Witness ==
    /\ pc = "rounded_div_done"
    /\ signed
    /\ dividend < 0
    /\ divisor = 0
    /\ res.kind = "panic"

====
